---- MODULE Spec2Model ----
(***************************************************************************)
(* Model of modules/fields/ngp_nerf.py: the stable exponential activation  *)
(* (_TruncExp), the space contraction (contract_to_unisphere) and the two  *)
(* fields NGPNeRF and NGPDensityField.                                     *)
(*                                                                         *)
(* Coordinates are exact rationals <<n, d>> (d > 0, lowest terms).  Tensor *)
(* values that can leave the finite range (network outputs, activations)   *)
(* are records [t, c, e]: t = "fin" is the finite value c * exp(e) with c  *)
(* rational and e an integer, t = "inf" is +/-infinity (sign in c) and     *)
(* t = "nan" is not-a-number, with the IEEE rules the tensor library       *)
(* applies to them.                                                        *)
(***************************************************************************)
EXTENDS Integers, Sequences, FiniteSets, TLC

VARIABLES
    field,  \* the field object (NGPNeRF or NGPDensityField): its attributes
    ctor,   \* the arguments the field was constructed with
    ret,    \* the last call on the field: operation, arguments, outcome
    cu,     \* a call of contract_to_unisphere: arguments, position, outcome
    te      \* a use of trunc_exp: input, ctx, forward value, gradient

vars == <<field, ctor, ret, cu, te>>

(***************************************************************************)
(* Bounds of the model.                                                    *)
(***************************************************************************)
MaxT == 2        \* ray samples t = 0 .. MaxT, spaced 1/StepDen apart
MaxBatch == 2    \* rows of a point batch
MaxResets == 1   \* reset_geo calls in one behaviour
MaxX == 100      \* largest input of trunc_exp
StepDen == 2     \* denominator of the ray sample spacing

(***************************************************************************)
(* Exact rational arithmetic.                                              *)
(***************************************************************************)
Abs(n) == IF n < 0 THEN -n ELSE n

RECURSIVE GCD(_, _)
GCD(a, b) == IF b = 0 THEN a ELSE GCD(b, a % b)

R(n, d) ==
    LET g == GCD(Abs(n), Abs(d))
        s == IF d < 0 THEN -1 ELSE 1
    IN  <<(s * n) \div g, (s * d) \div g>>

RZero == <<0, 1>>
ROne == <<1, 1>>
RTwo == <<2, 1>>
RHalf == <<1, 2>>
RFour == <<4, 1>>

RNeg(a) == <<-a[1], a[2]>>
RAdd(a, b) ==
    LET g == GCD(a[2], b[2])
    IN  R(a[1] * (b[2] \div g) + b[1] * (a[2] \div g), (a[2] \div g) * b[2])
RSub(a, b) == RAdd(a, RNeg(b))
RMul(a, b) ==
    LET x == R(a[1], b[2])
        y == R(b[1], a[2])
    IN  R(x[1] * y[1], x[2] * y[2])
RInv(a) == R(a[2], a[1])
RDiv(a, b) == RMul(a, RInv(b))

\* a < b for non-negative a, b, by continued fractions (no cross product).
RECURSIVE RLtPos(_, _)
RLtPos(a, b) ==
    LET qa == a[1] \div a[2]
        qb == b[1] \div b[2]
        ra == a[1] % a[2]
        rb == b[1] % b[2]
    IN  IF qa # qb THEN qa < qb
        ELSE IF rb = 0 THEN FALSE
        ELSE IF ra = 0 THEN TRUE
        ELSE RLtPos(<<b[2], rb>>, <<a[2], ra>>)

RLt(a, b) ==
    IF a[1] < 0
    THEN IF b[1] < 0 THEN RLtPos(RNeg(b), RNeg(a)) ELSE TRUE
    ELSE IF b[1] < 0 THEN FALSE ELSE RLtPos(a, b)
RLe(a, b) == ~RLt(b, a)
RMax(a, b) == IF RLt(a, b) THEN b ELSE a

IsSquare(n) == \E k \in 0..n : k * k = n
ISqrt(n) == CHOOSE k \in 0..n : k * k = n
\* The square root of a rational that is the square of a rational.
RHasSqrt(a) == a[1] >= 0 /\ IsSquare(a[1]) /\ IsSquare(a[2])
RSqrt(a) == <<ISqrt(a[1]), ISqrt(a[2])>>

RECURSIVE SumSq(_, _)
SumSq(x, i) == IF i = 0 THEN RZero ELSE RAdd(SumSq(x, i - 1), RMul(x[i], x[i]))

(***************************************************************************)
(* Tensor values outside the rationals.                                    *)
(***************************************************************************)
Fin(r) == [t |-> "fin", c |-> r, e |-> 0]
ExpVal(k) == [t |-> "fin", c |-> ROne, e |-> k]
PosInf == [t |-> "inf", c |-> ROne, e |-> 0]
NaN == [t |-> "nan", c |-> RZero, e |-> 0]
FZero == Fin(RZero)

\* v * s for a boolean selector s promoted to 0.0 / 1.0.
MulSelector(v, s) ==
    IF s THEN v
    ELSE IF v.t = "fin" THEN FZero
    ELSE NaN

\* g * v for a finite rational g.
Scale(g, v) ==
    IF v.t = "nan" THEN NaN
    ELSE IF v.t = "inf"
         THEN IF g[1] = 0 THEN NaN
              ELSE [t |-> "inf", c |-> (IF RLt(g, RZero) THEN RNeg(v.c) ELSE v.c), e |-> 0]
    ELSE IF g[1] = 0 \/ v.c[1] = 0 THEN FZero
    ELSE [t |-> "fin", c |-> RMul(g, v.c), e |-> v.e]


\* torch.clamp(v, min=lo) of a tensor value.
ClampMin(v, lo) ==
    IF v.t = "nan" THEN NaN
    ELSE IF v.t = "inf"
         THEN IF v.c[1] < 0 THEN Fin(lo) ELSE v
    ELSE [t |-> "fin", c |-> RMax(v.c, lo), e |-> 0]

(***************************************************************************)
(* _TruncExp: exp in the forward pass, exp(clamp(x, max=15)) in the        *)
(* gradient.  Inputs are integers; float32 exp overflows to +inf from      *)
(* ExpOverflow on.                                                         *)
(***************************************************************************)
ExpOverflow == 89
GradClamp == 15

\* torch.exp of a float32 tensor value holding an integer (or inf / nan).
TorchExp(v) ==
    IF v.t = "nan" THEN NaN
    ELSE IF v.t = "inf"
         THEN IF v.c[1] < 0 THEN FZero ELSE PosInf
    ELSE IF v.c[1] >= ExpOverflow THEN PosInf
    ELSE ExpVal(v.c[1])

\* torch.clamp(v, max=hi) for an integer hi.
ClampMaxInt(v, hi) ==
    IF v.t = "nan" THEN NaN
    ELSE IF v.t = "inf"
         THEN IF v.c[1] < 0 THEN v ELSE Fin(<<hi, 1>>)
    ELSE IF v.c[1] > hi THEN Fin(<<hi, 1>>) ELSE v

\* A plausible slip: the forward value clamped like the gradient.
TruncExp_forward_clamped(x) == TorchExp(ClampMaxInt(x, GradClamp))

\* _TruncExp.forward: the value returned (ctx.save_for_backward is in the action).
TruncExp_forward(x) == TorchExp(x)

\* _TruncExp.backward: g * exp(clamp(x, max=15)), x the saved tensor.
TruncExp_backward(saved, g) == Scale(g, TorchExp(ClampMaxInt(saved[1], GradClamp)))

\* trunc_exp = _TruncExp.apply
trunc_exp(x) == TruncExp_forward(x)

XVals == (-2)..MaxX
GVals == {ROne, <<3, 1>>}

TeIdle == [pc |-> "idle", x |-> FZero, g |-> ROne, ctx |-> <<>>, out |-> FZero, grad |-> FZero]

TeForward ==
    /\ te.pc = "start"
    /\ te' = [te EXCEPT !.pc = "forward_done", !.ctx = <<te.x>>,
                        !.out = TruncExp_forward(te.x)]
    /\ UNCHANGED <<field, ctor, ret, cu>>

TeBackward ==
    /\ te.pc = "forward_done"
    /\ te' = [te EXCEPT !.pc = "backward_done",
                        !.grad = TruncExp_backward(te.ctx, te.g)]
    /\ UNCHANGED <<field, ctor, ret, cu>>

(***************************************************************************)
(* contract_to_unisphere.  A batch is a sequence of points, a point a      *)
(* sequence of rationals, an AABB the sequence <<min..., max...>>.         *)
(***************************************************************************)
EpsDefault == <<1, 1000000>>

\* torch.split(aabb, n, dim=-1) unpacked into two chunks.
AabbMin(aabb, n) == SubSeq(aabb, 1, n)
AabbMax(aabb, n) == SubSeq(aabb, n + 1, Len(aabb))

\* (x - aabb_min) / (aabb_max - aabb_min), one point.
Normalize(p, lo, hi) ==
    [i \in 1..Len(p) |-> RDiv(RSub(p[i], lo[i]), RSub(hi[i], lo[i]))]

\* x * 2 - 1
ToUnit(p) == [i \in 1..Len(p) |-> RSub(RMul(p[i], RTwo), ROne)]

\* x.norm(dim=-1)
Mag(p) == RSqrt(SumSq(p, Len(p)))

\* A plausible slip: the warp without the division of x by its magnitude.
WarpRow_unnormalised(xp, m) ==
    IF RLt(ROne, m)
    THEN [i \in 1..Len(xp) |-> RMul(RSub(RTwo, RInv(m)), xp[i])]
    ELSE xp

\* x[mask] = (2 - 1 / mag[mask]) * (x[mask] / mag[mask]), one row.
WarpRow(xp, m) ==
    IF RLt(ROne, m)
    THEN [i \in 1..Len(xp) |-> RMul(RSub(RTwo, RInv(m)), RDiv(xp[i], m))]
    ELSE xp

\* x / 4 + 0.5
Rescale(p) == [i \in 1..Len(p) |-> RAdd(RDiv(p[i], RFour), RHalf)]

\* (2*mag - 1)/mag**2 + 2*x**2*(1/mag**3 - (2*mag - 1)/mag**4), one row, as
\* evaluated for every row of the batch: at mag = 0 it is -inf + 0 * inf = nan.
DevFormula(xp, m) ==
    LET m2 == RMul(m, m)
        m3 == RMul(m2, m)
        m4 == RMul(m3, m)
        a  == RSub(RMul(RTwo, m), ROne)
    IN  [i \in 1..Len(xp) |->
            IF m[1] = 0 THEN NaN
            ELSE Fin(RAdd(RDiv(a, m2),
                          RMul(RMul(RTwo, RMul(xp[i], xp[i])),
                               RSub(RInv(m3), RDiv(a, m4)))))]

\* A plausible slip: the overwrite dev[~mask] = 1.0 left out.
DevRow_no_overwrite(xp, m, eps) ==
    [i \in 1..Len(xp) |-> ClampMin(DevFormula(xp, m)[i], eps)]

\* dev[~mask] = 1.0 ; dev = torch.clamp(dev, min=eps), one row.
DevRow(xp, m, eps) ==
    LET dev == IF RLt(ROne, m) THEN DevFormula(xp, m)
               ELSE [i \in 1..Len(xp) |-> Fin(ROne)]
    IN  [i \in 1..Len(xp) |-> ClampMin(dev[i], eps)]

\* The rows whose magnitude is used as a divisor: every row in derivative
\* mode (the formula is evaluated on the whole batch before the overwrite),
\* the rows of the mask in forward mode.
DivisorRows(mags, derivative) ==
    {i \in 1..Len(mags) : derivative \/ RLt(ROne, mags[i])}

contract_to_unisphere(x, aabb, eps, derivative) ==
    IF ~(Len(aabb) = 6 /\ \A i \in 1..Len(x) : Len(x[i]) = 3)
    THEN [status |-> "RuntimeError", x |-> <<>>, dev |-> <<>>, divisors |-> {}]
    ELSE
    LET lo == AabbMin(aabb, 3)
        hi == AabbMax(aabb, 3)
        xp == [i \in 1..Len(x) |-> ToUnit(Normalize(x[i], lo, hi))]
        mag == [i \in 1..Len(x) |-> Mag(xp[i])]
    IN  IF derivative
        THEN [status |-> "ok", x |-> <<>>,
              dev |-> [i \in 1..Len(x) |-> DevRow(xp[i], mag[i], eps)],
              divisors |-> {mag[i] : i \in DivisorRows(mag, TRUE)}]
        ELSE [status |-> "ok",
              x |-> [i \in 1..Len(x) |-> Rescale(WarpRow(xp[i], mag[i]))],
              dev |-> <<>>,
              divisors |-> {mag[i] : i \in DivisorRows(mag, FALSE)}]

(***************************************************************************)
(* Inputs: point batches are consecutive samples o + (t/StepDen) * d of a  *)
(* ray from the origin; boxes are the unit box and an off-centre box.      *)
(***************************************************************************)
RayDirs(D) ==
    IF D = 3 THEN {<<1, 0, 0>>, <<0, -1, 0>>, <<1, 1, 1>>, <<1, 2, 2>>}
    ELSE {<<1, 0>>, <<0, -1>>, <<1, 1>>, <<3, 4>>}

Sample(d, t) == [i \in 1..Len(d) |-> R(t * d[i], StepDen)]
Batch(d, t0, n) == [k \in 1..n |-> Sample(d, t0 + k - 1)]
Batches(D) == {Batch(d, t0, n) : d \in RayDirs(D), t0 \in 0..MaxT, n \in 1..MaxBatch}

Box(D, lo, hi) == [i \in 1..(2 * D) |-> IF i <= D THEN <<lo, 1>> ELSE <<hi, 1>>]
AABBs(D) == {Box(D, -1, 1), Box(D, 0, 2)}

\* The [-1,1]-normalized coordinate of a point, and its squared magnitude.
UnitCoord(p, aabb) ==
    ToUnit(Normalize(p, AabbMin(aabb, Len(p)), AabbMax(aabb, Len(p))))
HasMag(x, aabb) ==
    \A i \in 1..Len(x) : RHasSqrt(SumSq(UnitCoord(x[i], aabb), Len(x[i])))

EpsVals == {EpsDefault, <<3, 4>>}
ContractAABBs == AABBs(3) \cup {Box(3, -2, 2)}

CuIdle == [pc |-> "idle", x |-> <<>>, aabb |-> <<>>, eps |-> EpsDefault,
           derivative |-> FALSE, res |-> [status |-> "none", x |-> <<>>,
           dev |-> <<>>, divisors |-> {}]]

ContractForward ==
    /\ cu.pc = "start"
    /\ cu' = [cu EXCEPT !.pc = "done", !.derivative = FALSE,
                        !.res = contract_to_unisphere(cu.x, cu.aabb, cu.eps, FALSE)]
    /\ UNCHANGED <<field, ctor, ret, te>>

ContractDerivative ==
    /\ cu.pc = "start"
    /\ cu' = [cu EXCEPT !.pc = "done", !.derivative = TRUE,
                        !.res = contract_to_unisphere(cu.x, cu.aabb, cu.eps, TRUE)]
    /\ UNCHANGED <<field, ctor, ret, te>>


(***************************************************************************)
(* The encoder+network backbone (tcnn.NetworkWithInputEncoding): an opaque *)
(* function of its parameters and of each input row.  It accepts an        *)
(* N x n_input_dims batch and returns N x n_output_dims; the parameters    *)
(* are identified by w, and gen counts the constructions of the instance.  *)
(***************************************************************************)
Weights == 0..1

Mlp(n_in, n_out, n_levels, n_hidden, out_act, w, gen) ==
    [n_input_dims |-> n_in, n_output_dims |-> n_out, n_levels |-> n_levels,
     n_hidden_layers |-> n_hidden, output_activation |-> out_act,
     w |-> w, gen |-> gen]

NoMlp == Mlp(0, 0, 0, 0, "None", 0, 0)

RawOutputs == <<Fin(<<0, 1>>), Fin(<<100, 1>>), Fin(<<-1, 1>>), Fin(<<1, 1>>), Fin(<<16, 1>>)>>
SigmoidOutputs == <<Fin(<<1, 4>>), Fin(<<1, 2>>), Fin(<<3, 4>>)>>

RECURSIVE KeyOf(_, _)
KeyOf(p, i) == IF i = 0 THEN 0 ELSE KeyOf(p, i - 1) + i * (Abs(p[i][1]) + p[i][2])

Backbone(mlp, X) ==
    IF \E i \in 1..Len(X) : Len(X[i]) # mlp.n_input_dims
    THEN [status |-> "RuntimeError", out |-> <<>>]
    ELSE LET table == IF mlp.output_activation = "Sigmoid"
                      THEN SigmoidOutputs ELSE RawOutputs
         IN  [status |-> "ok",
              out |-> [i \in 1..Len(X) |->
                        [c \in 1..mlp.n_output_dims |->
                            table[((mlp.w + KeyOf(X[i], Len(X[i])) + c) % Len(table)) + 1]]]]

(***************************************************************************)
(* NGPNeRF and NGPDensityField.                                            *)
(***************************************************************************)
\* x - 1 on a tensor value.
SubOne(v) == IF v.t = "fin" THEN Fin(RSub(v.c, ROne)) ELSE v

\* The two density activations of the source: lambda x: trunc_exp(x) and
\* lambda x: trunc_exp(x - 1).
DensityActivation(act, v) ==
    IF act = "trunc_exp" THEN trunc_exp(v) ELSE trunc_exp(SubOne(v))

\* A plausible slip: the comparison with the box faces not strict.
Selector_closed(xn) ==
    \A j \in 1..Len(xn) : RLe(RZero, xn[j]) /\ RLe(xn[j], ROne)

\* ((x > 0.0) & (x < 1.0)).all(dim=-1), one row.
Selector(xn) ==
    \A j \in 1..Len(xn) : RLt(RZero, xn[j]) /\ RLt(xn[j], ROne)

NGPNeRF_init(args) ==
    [kind |-> "NGPNeRF",
     aabb |-> args.aabb,
     num_dim |-> args.num_dim,
     use_viewdirs |-> args.use_viewdirs,
     density_activation |-> args.density_activation,
     unbounded |-> args.unbounded,
     geo_mlp |-> Mlp(args.num_dim, 1, args.n_levels, 1, "None", args.w, 1),
     app_mlp |-> Mlp(args.num_dim, 3, args.n_levels, 2, "Sigmoid", 1, 1)]

NGPDensityField_init(args) ==
    [kind |-> "NGPDensityField",
     aabb |-> args.aabb,
     num_dim |-> args.num_dim,
     use_viewdirs |-> FALSE,
     density_activation |-> args.density_activation,
     unbounded |-> args.unbounded,
     geo_mlp |-> Mlp(args.num_dim, 1, args.n_levels, 1, "None", args.w, 1),
     app_mlp |-> NoMlp]

Failed(op, x, status) ==
    [op |-> op, positions |-> x, directions |-> [given |-> FALSE, v |-> <<>>],
     contract |-> "None", status |-> status, selector |-> <<>>, raw |-> <<>>,
     raw_rgb |-> <<>>, density |-> <<>>, rgb |-> <<>>]

RetIdle == Failed("none", <<>>, "none")

\* NGPNeRF.query_density, the normalization and the mask:
\* x = (x - aabb_min) / (aabb_max - aabb_min); selector = (...).all(dim=-1)
query_density_normalized(self, x) ==
    [i \in 1..Len(x) |->
        Normalize(x[i], AabbMin(self.aabb, self.num_dim), AabbMax(self.aabb, self.num_dim))]
query_density_selector(self, x) ==
    [i \in 1..Len(x) |-> Selector(query_density_normalized(self, x)[i])]

\* NGPNeRF.query_density
query_density(self, x) ==
    LET xn == query_density_normalized(self, x)
        selector == query_density_selector(self, x)
        net == Backbone(self.geo_mlp, xn)
    IN  IF net.status # "ok" THEN Failed("query_density", x, net.status)
        ELSE [Failed("query_density", x, "ok") EXCEPT
                !.selector = selector,
                !.raw = net.out,
                !.density = [i \in 1..Len(x) |->
                    <<MulSelector(DensityActivation(self.density_activation, net.out[i][1]),
                                  selector[i])>>]]

\* NGPNeRF.query_rgb, the normalization and the mask.
query_rgb_normalized(self, x) ==
    [i \in 1..Len(x) |->
        Normalize(x[i], AabbMin(self.aabb, self.num_dim), AabbMax(self.aabb, self.num_dim))]
query_rgb_selector(self, x) ==
    [i \in 1..Len(x) |-> Selector(query_rgb_normalized(self, x)[i])]

\* NGPNeRF.query_rgb
query_rgb(self, x) ==
    LET xn == query_rgb_normalized(self, x)
        selector == query_rgb_selector(self, x)
        net == Backbone(self.app_mlp, xn)
    IN  IF net.status # "ok" THEN Failed("query_rgb", x, net.status)
        ELSE [Failed("query_rgb", x, "ok") EXCEPT
                !.selector = selector,
                !.raw_rgb = net.out,
                !.rgb = [i \in 1..Len(x) |->
                    [c \in 1..3 |-> MulSelector(net.out[i][c], selector[i])]]]

\* tensor.shape of a batch, or of no directions.
Shape(b) == <<Len(b), IF Len(b) = 0 THEN 0 ELSE Len(b[1])>>

\* A plausible slip: the shape assertion made whatever use_viewdirs is.
NGPNeRF_forward_always_asserts(self, positions, directions, contract) ==
    LET call == [Failed("forward", positions, "ok") EXCEPT
                    !.directions = directions, !.contract = contract]
        d == query_density(self, positions)
        c == query_rgb(self, positions)
    IN  IF directions.given /\ Shape(positions) # Shape(directions.v)
        THEN [call EXCEPT !.status = "AssertionError"]
        ELSE IF d.status # "ok" THEN [call EXCEPT !.status = d.status]
        ELSE IF c.status # "ok" THEN [call EXCEPT !.status = c.status]
        ELSE [call EXCEPT !.selector = d.selector, !.raw = d.raw,
                          !.raw_rgb = c.raw_rgb, !.density = d.density, !.rgb = c.rgb]

\* A plausible slip: the colour made view-dependent when directions are given.
NGPNeRF_forward_uses_directions(self, positions, directions, contract) ==
    LET call == [Failed("forward", positions, "ok") EXCEPT
                    !.directions = directions, !.contract = contract]
        d == query_density(self, positions)
        c == query_rgb(self, positions)
    IN  IF self.use_viewdirs /\ directions.given
           /\ Shape(positions) # Shape(directions.v)
        THEN [call EXCEPT !.status = "AssertionError"]
        ELSE IF d.status # "ok" THEN [call EXCEPT !.status = d.status]
        ELSE IF c.status # "ok" THEN [call EXCEPT !.status = c.status]
        ELSE [call EXCEPT !.selector = d.selector, !.raw = d.raw,
                          !.raw_rgb = c.raw_rgb, !.density = d.density,
                          !.rgb = IF self.use_viewdirs /\ directions.given
                                  THEN [i \in 1..Len(positions) |->
                                            [k \in 1..3 |-> FZero]]
                                  ELSE c.rgb]

\* NGPNeRF.forward
NGPNeRF_forward(self, positions, directions, contract) ==
    LET call == [Failed("forward", positions, "ok") EXCEPT
                    !.directions = directions, !.contract = contract]
        d == query_density(self, positions)
        c == query_rgb(self, positions)
    IN  IF self.use_viewdirs /\ directions.given
           /\ Shape(positions) # Shape(directions.v)
        THEN [call EXCEPT !.status = "AssertionError"]
        ELSE IF d.status # "ok" THEN [call EXCEPT !.status = d.status]
        ELSE IF c.status # "ok" THEN [call EXCEPT !.status = c.status]
        ELSE [call EXCEPT !.selector = d.selector, !.raw = d.raw,
                          !.raw_rgb = c.raw_rgb, !.density = d.density, !.rgb = c.rgb]

\* A plausible slip: the reset rebuilding the appearance backbone as well.
reset_geo_rebuilds_both(self, w) ==
    [self EXCEPT
        !.geo_mlp = Mlp(3, 1, 16, 1, "None", w, self.geo_mlp.gen + 1),
        !.app_mlp = Mlp(3, 3, 16, 2, "Sigmoid", w, self.app_mlp.gen + 1)]

\* NGPNeRF.reset_geo: a new geometry backbone with freshly initialised
\* parameters w.
reset_geo(self, w) ==
    [self EXCEPT !.geo_mlp = Mlp(3, 1, 16, 1, "None", w, self.geo_mlp.gen + 1)]

\* NGPDensityField.forward
NGPDensityField_forward(self, positions) ==
    LET cont == contract_to_unisphere(positions, self.aabb, EpsDefault, FALSE)
        lo == AabbMin(self.aabb, self.num_dim)
        hi == AabbMax(self.aabb, self.num_dim)
        xn == IF self.unbounded THEN cont.x
              ELSE [i \in 1..Len(positions) |-> Normalize(positions[i], lo, hi)]
        selector == [i \in 1..Len(positions) |-> Selector(xn[i])]
        net == Backbone(self.geo_mlp, xn)
    IN  IF self.unbounded /\ cont.status # "ok"
        THEN Failed("density_forward", positions, cont.status)
        ELSE IF net.status # "ok"
        THEN Failed("density_forward", positions, net.status)
        ELSE [Failed("density_forward", positions, "ok") EXCEPT
                !.selector = selector,
                !.raw = net.out,
                !.density = [i \in 1..Len(positions) |->
                    <<MulSelector(DensityActivation(self.density_activation, net.out[i][1]),
                                  selector[i])>>]]

(***************************************************************************)
(* The field as a state machine: construction, then calls; each call's     *)
(* outcome is held in ret until the caller has taken it.                   *)
(***************************************************************************)
NumDims == {2, 3}
Activations == {"trunc_exp", "trunc_exp_minus_1"}
LevelCounts == {8}

CtorArgs ==
    [kind : {"NGPNeRF"}, aabb : AABBs(2) \cup AABBs(3), num_dim : NumDims,
     use_viewdirs : BOOLEAN, density_activation : Activations,
     unbounded : BOOLEAN, n_levels : LevelCounts, w : {0}]
    \cup
    [kind : {"NGPDensityField"}, aabb : AABBs(2) \cup AABBs(3), num_dim : NumDims,
     use_viewdirs : {FALSE}, density_activation : Activations,
     unbounded : BOOLEAN, n_levels : {5}, w : Weights]

Init ==
    /\ \E args \in CtorArgs :
        /\ Len(args.aabb) = 2 * args.num_dim
        /\ ctor = args
        /\ field = IF args.kind = "NGPNeRF" THEN NGPNeRF_init(args)
                   ELSE NGPDensityField_init(args)
    /\ ret = RetIdle
    /\ cu = CuIdle
    /\ te = TeIdle

Idle == ret.op = "none"

\* The directions a caller may pass with a batch of n points: none, two
\* batches of the batch's shape, one of another shape.
DirectionArgs(D, n) ==
    {[given |-> FALSE, v |-> <<>>]}
    \cup {[given |-> TRUE, v |-> Batch(d, 1, k)] :
            d \in {CHOOSE e \in RayDirs(D) : TRUE}, k \in {n, n + 1}}
    \cup {[given |-> TRUE, v |-> Batch(d, 2, n)] :
            d \in {CHOOSE e \in RayDirs(D) : TRUE}}
ContractArgs == {"None", "contract"}

QueryDensity ==
    /\ Idle /\ field.kind = "NGPNeRF"
    /\ \E x \in Batches(field.num_dim) : ret' = query_density(field, x)
    /\ UNCHANGED <<field, ctor, cu, te>>

QueryRgb ==
    /\ Idle /\ field.kind = "NGPNeRF"
    /\ \E x \in Batches(field.num_dim) : ret' = query_rgb(field, x)
    /\ UNCHANGED <<field, ctor, cu, te>>

Forward ==
    /\ Idle /\ field.kind = "NGPNeRF"
    /\ \E x \in Batches(field.num_dim) :
        \E dirs \in DirectionArgs(field.num_dim, Len(x)), c \in ContractArgs :
            ret' = NGPNeRF_forward(field, x, dirs, c)
    /\ UNCHANGED <<field, ctor, cu, te>>

ResetGeo ==
    /\ Idle /\ field.kind = "NGPNeRF"
    /\ field.geo_mlp.gen <= MaxResets
    /\ \E w \in Weights \ {field.geo_mlp.w} : field' = reset_geo(field, w)
    /\ ret' = Failed("reset_geo", <<>>, "ok")
    /\ UNCHANGED <<ctor, cu, te>>

DensityForward ==
    /\ Idle /\ field.kind = "NGPDensityField"
    /\ \E x \in Batches(field.num_dim) :
        /\ (field.unbounded /\ field.num_dim = 3) => HasMag(x, field.aabb)
        /\ ret' = NGPDensityField_forward(field, x)
    /\ UNCHANGED <<field, ctor, cu, te>>

\* The caller takes the outcome of the call.
Return ==
    /\ ~Idle
    /\ ret' = RetIdle
    /\ UNCHANGED <<field, ctor, cu, te>>

Next == QueryDensity \/ QueryRgb \/ Forward \/ ResetGeo \/ DensityForward \/ Return

Spec == Init /\ [][Next]_vars

NoField == [kind |-> "none"]

InitTruncExp ==
    /\ \E x \in XVals, g \in GVals :
        te = [TeIdle EXCEPT !.pc = "start", !.x = Fin(<<x, 1>>), !.g = g]
    /\ cu = CuIdle /\ field = NoField /\ ctor = NoField /\ ret = RetIdle

NextTruncExp == TeForward \/ TeBackward

SpecTruncExp == InitTruncExp /\ [][NextTruncExp]_vars

InitContract ==
    /\ \E aabb \in ContractAABBs, x \in Batches(3), eps \in EpsVals :
        /\ HasMag(x, aabb)
        /\ cu = [CuIdle EXCEPT !.pc = "start", !.x = x, !.aabb = aabb, !.eps = eps]
    /\ te = TeIdle /\ field = NoField /\ ctor = NoField /\ ret = RetIdle

NextContract == ContractForward \/ ContractDerivative

SpecContract == InitContract /\ [][NextContract]_vars

(***************************************************************************)
(* Properties of trunc_exp and contract_to_unisphere.                      *)
(***************************************************************************)
TeX == te.x.c[1]

\* C8: the forward pass of trunc_exp returns exp(x) for every x, never the
\* clamped value (in float32: +inf once exp(x) overflows); the backward pass
\* returns grad_out * exp(min(x, 15)): grad_out times the forward value for
\* x <= 15, grad_out * exp(15) for every x > 15.
C8_TruncExpGradient ==
    /\ te.pc \in {"forward_done", "backward_done"} =>
        /\ te.ctx = <<te.x>>
        /\ TeX < ExpOverflow => te.out = [t |-> "fin", c |-> ROne, e |-> TeX]
        /\ TeX >= ExpOverflow => te.out = PosInf
    /\ te.pc = "backward_done" =>
        /\ TeX <= 15 => te.grad = [t |-> "fin", c |-> te.g, e |-> TeX]
        /\ TeX <= 15 => te.grad = Scale(te.g, te.out)
        /\ TeX > 15 => te.grad = [t |-> "fin", c |-> te.g, e |-> 15]

\* C8 witness: the gradient at x = 100 with grad_out = 1 is exp(15), while
\* the forward value is not exp(15).
C8_Witness ==
    /\ te.pc = "backward_done"
    /\ TeX = 100
    /\ te.g = ROne
    /\ te.grad = ExpVal(15)
    /\ te.out # ExpVal(15)

CuDone(derivative) ==
    cu.pc = "done" /\ cu.derivative = derivative /\ cu.res.status = "ok"
CuRows == 1..Len(cu.x)
CuUnit(i) == UnitCoord(cu.x[i], cu.aabb)
CuMag(i) == Mag(CuUnit(i))
\* The returned coordinate before the final rescale: 4 * (x_out - 1/2).
CuWarped(i) ==
    [j \in 1..3 |-> RMul(RFour, RSub(cu.res.x[i][j], RHalf))]
SameDirection(w, x) ==
    /\ \A j, l \in 1..3 : RMul(w[j], x[l]) = RMul(w[l], x[j])
    /\ \A j \in 1..3 : (x[j][1] > 0 => w[j][1] > 0) /\ (x[j][1] < 0 => w[j][1] < 0)
WarpedMag(i) == SumSq(CuWarped(i), 3)

\* C3: the forward warp leaves a point with m <= 1 unchanged before the final
\* rescale, maps a point with m > 1 to the same direction with magnitude
\* 2 - 1/m (strictly increasing in m, below 2), and every returned coordinate
\* lies in [0,1].
C3_ContractRange ==
    CuDone(FALSE) =>
        /\ Len(cu.res.x) = Len(cu.x)
        /\ \A i \in CuRows :
            /\ RLe(CuMag(i), ROne) => CuWarped(i) = CuUnit(i)
            /\ RLt(ROne, CuMag(i)) =>
                /\ SameDirection(CuWarped(i), CuUnit(i))
                /\ RHasSqrt(WarpedMag(i))
                /\ RSqrt(WarpedMag(i)) = RSub(RTwo, RInv(CuMag(i)))
                /\ RLt(WarpedMag(i), RFour)
            /\ \A j \in 1..3 :
                RLe(RZero, cu.res.x[i][j]) /\ RLe(cu.res.x[i][j], ROne)
        /\ \A i, k \in CuRows :
            (RLt(ROne, CuMag(i)) /\ RLt(CuMag(i), CuMag(k))) =>
                RLt(WarpedMag(i), WarpedMag(k))

\* C3 witness: a batch with a row inside the unit ball and a row outside it,
\* off the axes, has been warped.
C3_Witness ==
    /\ CuDone(FALSE)
    /\ \E i, k \in CuRows :
        /\ RLe(CuMag(i), ROne)
        /\ RLt(ROne, CuMag(k))
        /\ \A j \in 1..3 : CuUnit(k)[j][1] # 0
        /\ CuWarped(k) # CuUnit(k)

\* C9: in both modes a division by the magnitude is evaluated only for rows
\* with m > 1; a row of magnitude 0 is returned as x' unchanged.
C9_DivisionOnlyOutsideBall ==
    cu.pc = "done" /\ cu.res.status = "ok" =>
        /\ \A m \in cu.res.divisors : RLt(ROne, m)
        /\ ~cu.derivative =>
            \A i \in CuRows : CuMag(i) = RZero => CuWarped(i) = CuUnit(i)

\* The closed form the derivative mode evaluates outside the unit ball.
ClosedFormDev(x, m, j) ==
    RAdd(RDiv(RSub(RMul(RTwo, m), ROne), RMul(m, m)),
         RMul(RMul(RTwo, RMul(x[j], x[j])),
              RSub(RInv(RMul(m, RMul(m, m))),
                   RDiv(RSub(RMul(RTwo, m), ROne), RMul(RMul(m, m), RMul(m, m))))))

\* C10 as stated: derivative mode returns 1.0 for m <= 1, the closed form for
\* m > 1, and every returned value is at least eps.
C10_DerivativeAsStated ==
    CuDone(TRUE) =>
        \A i \in CuRows : \A j \in 1..3 :
            /\ RLe(CuMag(i), ROne) => cu.res.dev[i][j] = Fin(ROne)
            /\ RLt(ROne, CuMag(i)) =>
                cu.res.dev[i][j] = Fin(ClosedFormDev(CuUnit(i), CuMag(i), j))
            /\ cu.res.dev[i][j].t = "fin" /\ RLe(cu.eps, cu.res.dev[i][j].c)

\* C10 amended: for eps <= 1 derivative mode returns 1.0 for m <= 1 and
\* max(eps, closed form) for m > 1; every returned value is finite and at
\* least eps.
C10_DerivativeClamped ==
    CuDone(TRUE) /\ RLe(cu.eps, ROne) =>
        /\ Len(cu.res.dev) = Len(cu.x)
        /\ \A i \in CuRows : \A j \in 1..3 :
            /\ RLe(CuMag(i), ROne) => cu.res.dev[i][j] = Fin(ROne)
            /\ RLt(ROne, CuMag(i)) =>
                cu.res.dev[i][j] =
                    Fin(RMax(cu.eps, ClosedFormDev(CuUnit(i), CuMag(i), j)))
            /\ cu.res.dev[i][j].t = "fin" /\ RLe(cu.eps, cu.res.dev[i][j].c)

\* C10 witness: a batch with a row at the centre (m = 0) and, outside the
\* ball, one value given by the closed form and one raised to eps.
C10_Witness ==
    /\ CuDone(TRUE)
    /\ \E i \in CuRows : CuMag(i) = RZero /\ cu.res.dev[i][1] = Fin(ROne)
    /\ \E i \in CuRows : \E j, l \in 1..3 :
        /\ RLt(ROne, CuMag(i))
        /\ cu.res.dev[i][j] = Fin(cu.eps)
        /\ RLt(ClosedFormDev(CuUnit(i), CuMag(i), j), cu.eps)
        /\ cu.res.dev[i][l] = Fin(ClosedFormDev(CuUnit(i), CuMag(i), l))
        /\ RLt(cu.eps, cu.res.dev[i][l].c)


(***************************************************************************)
(* Properties of the fields.                                               *)
(***************************************************************************)
Returned == ret.op \in {"query_density", "query_rgb", "forward", "density_forward"}
                /\ ret.status = "ok"
RetRows == 1..Len(ret.positions)
HasDensity == ret.op \in {"query_density", "forward", "density_forward"}
HasRgb == ret.op \in {"query_rgb", "forward"}

\* The normalized coordinate of row i of the last call: the box-relative
\* coordinate, or the contracted one for an unbounded density field.
NormCoord(i) ==
    LET p == ret.positions[i]
        D == Len(p)
    IN  IF field.kind = "NGPDensityField" /\ field.unbounded
        THEN [j \in 1..D |->
                RAdd(RDiv(WarpRow(UnitCoord(p, field.aabb),
                                  Mag(UnitCoord(p, field.aabb)))[j], RFour), RHalf)]
        ELSE [j \in 1..D |->
                RDiv(RSub(p[j], field.aabb[j]),
                     RSub(field.aabb[D + j], field.aabb[j]))]
StrictlyInUnitCube(xn) ==
    \A j \in 1..Len(xn) : RLt(RZero, xn[j]) /\ RLt(xn[j], ROne)

\* C1: for every field and every point whose normalized coordinate is not
\* strictly inside (0,1) on some axis, the returned density and colour are
\* exactly zero, whatever the backbone and the activation produce.
C1_OutsideIsZero ==
    Returned =>
        \A i \in RetRows :
            ~StrictlyInUnitCube(NormCoord(i)) =>
                /\ HasDensity => ret.density[i] = <<FZero>>
                /\ HasRgb => ret.rgb[i] = <<FZero, FZero, FZero>>

\* Position of a point relative to the box, without normalization.
InsideBox(p, aabb) ==
    \A j \in 1..Len(p) : RLt(aabb[j], p[j]) /\ RLt(p[j], aabb[Len(p) + j])
OnFace(p, aabb) ==
    \E j \in 1..Len(p) : p[j] = aabb[j] \/ p[j] = aabb[Len(p) + j]
Bounded == field.kind = "NGPNeRF" \/ ~field.unbounded

\* C2: the validity mask of a point is true iff its normalized coordinate is
\* strictly between 0 and 1 on every axis; in bounded mode a point strictly
\* inside the box is valid and its output is the activation of the backbone
\* value (the backbone colour) unchanged, a point on a face of the box is
\* invalid; query_density and query_rgb compute the same mask.
C2_ValidityMask ==
    Returned =>
        /\ Len(ret.selector) = Len(ret.positions)
        /\ \A i \in RetRows :
            /\ ret.selector[i] <=> StrictlyInUnitCube(NormCoord(i))
            /\ (Bounded /\ InsideBox(ret.positions[i], field.aabb)) =>
                /\ ret.selector[i]
                /\ HasDensity => ret.density[i] =
                     <<DensityActivation(field.density_activation, ret.raw[i][1])>>
                /\ HasRgb => ret.rgb[i] = ret.raw_rgb[i]
            /\ (Bounded /\ OnFace(ret.positions[i], field.aabb)) => ~ret.selector[i]
        /\ field.kind = "NGPNeRF" =>
            /\ query_density_selector(field, ret.positions) = ret.selector
            /\ query_rgb_selector(field, ret.positions) = ret.selector

\* C2 witness: a returned batch with one row strictly inside the box and one
\* row on a face of it.
C2_Witness ==
    /\ Returned /\ ret.op = "forward"
    /\ \E i, k \in RetRows :
        /\ InsideBox(ret.positions[i], field.aabb) /\ ret.selector[i]
        /\ ret.density[i] # <<FZero>>
        /\ OnFace(ret.positions[k], field.aabb) /\ ~ret.selector[k]

ShapeMismatch ==
    ret.directions.given /\ Shape(ret.directions.v) # Shape(ret.positions)

Construction ==
    IF ctor.kind = "NGPNeRF" THEN NGPNeRF_init(ctor) ELSE NGPDensityField_init(ctor)
Queries == {"query_density", "query_rgb", "forward"}
Rerun(self, call) ==
    IF call.op = "query_density" THEN query_density(self, call.positions)
    ELSE IF call.op = "query_rgb" THEN query_rgb(self, call.positions)
    ELSE NGPNeRF_forward(self, call.positions, call.directions, call.contract)

\* C5: every step of an NGPNeRF leaves the AABB, the appearance backbone, the
\* density activation and the flags num_dim, use_viewdirs, unbounded at their
\* construction values; the geometry backbone changes only in a reset_geo
\* step; a query step changes nothing of the field, so the query repeated on
\* the field it leaves returns the same result.
C5_QueriesLeaveFieldAlone ==
    [][ctor.kind = "NGPNeRF" =>
        /\ ctor' = ctor
        /\ field'.aabb = Construction.aabb
        /\ field'.app_mlp = Construction.app_mlp
        /\ field'.density_activation = Construction.density_activation
        /\ field'.num_dim = Construction.num_dim
        /\ field'.use_viewdirs = Construction.use_viewdirs
        /\ field'.unbounded = Construction.unbounded
        /\ field'.geo_mlp # field.geo_mlp => ret'.op = "reset_geo"
        /\ ret'.op \in Queries => (field' = field /\ Rerun(field', ret') = ret')
       ]_vars

\* C5 witness: a query has returned from a field whose geometry backbone was
\* reset and whose other attributes are those of the construction.
C5_Witness ==
    /\ ret.op = "query_density" /\ ret.status = "ok"
    /\ field.geo_mlp # Construction.geo_mlp
    /\ field.geo_mlp.gen = 2
    /\ field.app_mlp = Construction.app_mlp
    /\ field.aabb = ctor.aabb

\* C6: when forward returns, whatever directions and contract argument it
\* was given, its result is (query_rgb(points), query_density(points)), and
\* these are the same on a field that differs only in use_viewdirs or
\* unbounded.
C6_ForwardIgnoresDirections ==
    (ret.op = "forward" /\ ret.status = "ok") =>
        /\ ret.rgb = query_rgb(field, ret.positions).rgb
        /\ ret.density = query_density(field, ret.positions).density
        /\ \A uv \in BOOLEAN, ub \in BOOLEAN :
            LET other == [field EXCEPT !.use_viewdirs = uv, !.unbounded = ub]
            IN  /\ query_rgb(other, ret.positions).rgb = ret.rgb
                /\ query_density(other, ret.positions).density = ret.density

\* C6 witness: forward has returned a non-zero colour on a view-dependent
\* field that was given directions and a contract argument.
C6_Witness ==
    /\ ret.op = "forward" /\ ret.status = "ok"
    /\ field.use_viewdirs /\ field.unbounded
    /\ ret.directions.given /\ ret.contract = "contract"
    /\ \E i \in RetRows : ret.selector[i] /\ ret.rgb[i] # <<FZero, FZero, FZero>>

\* C7: after any number of reset_geo calls the geometry backbone keeps the
\* shape contract of the construction (N x num_dim in, N x 1 out), so
\* query_density succeeds after a reset as it did before.
C7_ResetKeepsShapeContract ==
    field.kind = "NGPNeRF" =>
        /\ field.geo_mlp.n_input_dims = field.num_dim
        /\ field.geo_mlp.n_output_dims = 1
        /\ ret.op = "query_density" => ret.status = "ok"

====
